---- MODULE Spec2Model ----
(***************************************************************************)
(* Model of the mock-interview application.                                *)
(*                                                                         *)
(*   Agent        src/unnamed/part_000, lines 182-374 (the voice-call      *)
(*                component: callStatus, messages, isSpeaking, the channel *)
(*                event handlers, the FINISHED effect, the two buttons)    *)
(*   auth.action  src/lib/actions/auth.action.ts, lines 1-147 (signUp,     *)
(*                signIn, setSessionCookie, getCurrentUser, signOut)       *)
(*   general      src/lib/actions/auth.action.ts, lines 148-277            *)
(*                (createFeedback and the interview queries)               *)
(*                                                                         *)
(* The voice SDK (vapi), the identity provider and the document store are  *)
(* external: the model keeps only the part of their state the code can     *)
(* observe (which events the channel may deliver, whether a credential     *)
(* verifies, which documents exist).                                       *)
(***************************************************************************)
EXTENDS Integers, Sequences, FiniteSets, TLC

(***************************************************************************)
(* Bounds of the model.                                                    *)
(***************************************************************************)
\* inbound 'message' events delivered during one component lifecycle
MaxEvents == 2
\* clicks on the call button during one component lifecycle
MaxClicks == 2
\* documents the 'feedback' collection holds in SpecFeedback
MaxRecords == 3
\* documents the 'interviews' collection holds in SpecInterviews
MaxInterviews == 3

\* signUp calls that may be in progress together.
MaxCalls == 2

(***************************************************************************)
(* Agent: props and values.                                                *)
(***************************************************************************)
\* enum CallStatus, part_000:195-200
CallStatus == {"INACTIVE", "CONNECTING", "ACTIVE", "FINISHED"}

\* AgentProps.type, part_000:209
Types == {"generate", "interview"}

\* AgentProps.userId / interviewId, part_000:209
userId == "u1"
interviewId == "i1"

\* AgentProps.userName, part_000:209
userName == "Ann"

\* AgentProps.questions, part_000:209: absent, or a list of question
\* strings. A string is the sequence of its characters.
QuestionProps ==
    { [defined |-> FALSE, list |-> <<>>],
      [defined |-> TRUE, list |-> <<>>],
      [defined |-> TRUE, list |-> << <<"x">> >>],
      [defined |-> TRUE, list |-> << <<"x">>, <<"y">> >>],
      [defined |-> TRUE, list |-> << <<"y">>, <<"x">> >>] }

\* The inbound 'message' events the channel may deliver (Message, part_000:221):
\* final and partial transcripts of both roles, and a non-transcript message.
Messages ==
    { [type |-> "transcript", transcriptType |-> "final",
       role |-> "user", transcript |-> "a"],
      [type |-> "transcript", transcriptType |-> "final",
       role |-> "assistant", transcript |-> "q"],
      [type |-> "transcript", transcriptType |-> "partial",
       role |-> "user", transcript |-> "a"],
      [type |-> "function-call", transcriptType |-> "none",
       role |-> "assistant", transcript |-> "f"] }

VARIABLES
    \* ---- Agent component state (useState, part_000:211-213)
    type,           \* the type prop of this component instance
    callStatus,
    messages,
    isSpeaking,
    mounted,        \* the component is mounted (listeners registered)
    \* ---- the voice channel (vapi), as far as the component drives it
    channel,        \* "idle" | "starting" | "live" | "stopping"
    startsPending,  \* vapi.start requests issued and not yet answered
    \* ---- router and the feedback pipeline
    pushed,         \* target of the last router.push, "none" before any
    inflight,       \* createFeedback invocations awaiting their result
    feedback,       \* the 'feedback' collection, in insertion order
    \* ---- history
    received,       \* every inbound 'message' event, in receipt order
    invoked,        \* createFeedback invocations since the last start()
    clicks,         \* clicks on the call button so far
    finishedNonEmpty, \* a non-generate run was FINISHED with a transcript
    \* ---- server actions (auth.action.ts): stores and the last result
    accounts,       \* the identity provider's accounts, [uid, email]
    users,          \* the 'users' collection, documents [id, name, email]
    cookie,         \* the value of the 'session' cookie, "none" if absent
    liveSessions,   \* subjects whose session credential still verifies
    authResult,     \* what the last server action returned
    \* ---- Agent: further props, arguments and console
    questions,      \* the questions prop: absent, or a list of questions
    startArgs,      \* the arguments of the last vapi.start
    errorLogged,    \* console.log('Error', ...) has run
    \* ---- AuthForm (part_000:38-115)
    toast,          \* the last notification shown
    formRoute,      \* the route the form's page is on
    \* ---- server actions (general.action): store and the last result
    interviews,     \* the 'interviews' collection
    genResult,      \* what the last general.action call returned
    succeeded,      \* createFeedback calls that returned success = true
    \* ---- concurrent signUp calls (auth.action.ts:13-53), step by step
    calls,          \* every call: its position, parameters and result
    profileWrites   \* per uid, the doc(uid).set calls that have completed

agentVars == <<type, callStatus, messages, isSpeaking, mounted, channel,
               startsPending, pushed, inflight, feedback, received, invoked,
               clicks, finishedNonEmpty, questions, startArgs, errorLogged>>

authVars == <<accounts, users, cookie, liveSessions, authResult>>

formVars == <<toast, formRoute>>

generalVars == <<interviews, genResult, succeeded>>

signUpVars == <<calls, profileWrites>>

vars == <<agentVars, authVars, formVars, generalVars, signUpVars>>

(***************************************************************************)
(* Agent: pure parts of the handlers.                                      *)
(***************************************************************************)
\* onMessage keeps every transcript, interim ones included.
onMessageKeepsPartial(prev, message) ==
    IF message.type = "transcript"
    THEN Append(prev, [role |-> message.role, content |-> message.transcript])
    ELSE prev

\* onMessage, part_000:221-227: the value setMessages leaves in messages.
onMessageState(prev, message) ==
    IF message.type = "transcript" /\ message.transcriptType = "final"
    THEN Append(prev, [role |-> message.role, content |-> message.transcript])
    ELSE prev

\* The effect without the test of the call type.
effectIgnoresType(cs, changed) ==
    IF changed /\ cs = "FINISHED" THEN "feedback" ELSE "none"

\* The FINISHED effect, part_000:274-282. React runs it after a render in
\* which one of its dependencies (messages, callStatus; type and userId are
\* fixed props) changed. "push": router.push('/'); "feedback":
\* handleGenerateFeedback(messages).
finishedEffect(cs, changed) ==
    IF changed /\ cs = "FINISHED"
    THEN IF type = "generate" THEN "push" ELSE "feedback"
    ELSE "none"

RECURSIVE join(_, _)
\* Array.prototype.join(sep), part_000:302
join(strs, sep) ==
    IF strs = <<>> THEN <<>>
    ELSE IF Len(strs) = 1 THEN strs[1]
    ELSE strs[1] \o sep \o join(Tail(strs), sep)

\* The questions joined without the "- " prefix.
formattedQuestionsNoPrefix(qs) ==
    IF qs.defined THEN join(qs.list, <<"\n">>) ELSE <<>>

\* formattedQuestions, part_000:298-303: '' unless questions is given,
\* else every question as "- <question>", joined by newlines.
formattedQuestions(qs) ==
    IF qs.defined
    THEN join([i \in 1..Len(qs.list) |-> <<"-", " ">> \o qs.list[i]], <<"\n">>)
    ELSE <<>>

\* The arguments of vapi.start, part_000:288-311.
startArguments(ty, qs) ==
    IF ty = "generate"
    THEN [kind |-> "start", target |-> "NEXT_PUBLIC_VAPI_WORKFLOW_ID",
          variableValues |-> [username |-> userName, userid |-> userId]]
    ELSE [kind |-> "start", target |-> "interviewer",
          variableValues |-> [questions |-> formattedQuestions(qs)]]

\* onCallEnd resets the status for the next call.
onCallEndResets == "INACTIVE"

\* onCallEnd, part_000:219
onCallEndStatus == "FINISHED"

\* handleDisconnect returns the component to its idle status.
handleDisconnectResets == "INACTIVE"

\* handleDisconnect, part_000:316
handleDisconnectStatus == "FINISHED"

\* The button rendered, part_000:356-369: the call button (onClick =
\* handleCall) unless callStatus is ACTIVE, the End button (onClick =
\* handleDisconnect) only then.
callButtonShown == callStatus # "ACTIVE"
disconnectButtonShown == callStatus = "ACTIVE"

\* createFeedback reports success without awaiting the outcome of the write.
createFeedbackWriteNotAwaited(params, store, modelOk, writeOk) ==
    IF modelOk
    THEN LET id == Len(store) + 1
         IN  [success |-> TRUE, feedbackId |-> id,
              store |-> IF writeOk
                        THEN Append(store, [id |-> id,
                                            interviewId |-> params.interviewId,
                                            userId |-> params.userId])
                        ELSE store]
    ELSE [success |-> FALSE, feedbackId |-> 0, store |-> store]

\* createFeedback returns the record the pair already has instead of adding
\* another one.
createFeedbackIdempotent(params, store, modelOk, writeOk) ==
    IF modelOk /\ writeOk
    THEN IF \E i \in 1..Len(store) :
               /\ store[i].interviewId = params.interviewId
               /\ store[i].userId = params.userId
         THEN [success |-> TRUE,
               feedbackId |-> (CHOOSE i \in 1..Len(store) :
                                  /\ store[i].interviewId = params.interviewId
                                  /\ store[i].userId = params.userId),
               store |-> store]
         ELSE [success |-> TRUE, feedbackId |-> Len(store) + 1,
               store |-> Append(store, [id |-> Len(store) + 1,
                                        interviewId |-> params.interviewId,
                                        userId |-> params.userId])]
    ELSE [success |-> FALSE, feedbackId |-> 0, store |-> store]

\* createFeedback, auth.action.ts:202-254, over the 'feedback' collection
\* store. modelOk: generateObject returned an object matching the schema;
\* writeOk: db.collection('feedback').add succeeded. Either failure is caught
\* (249-253). Ids are the store's own, fresh for every added document.
createFeedback(params, store, modelOk, writeOk) ==
    IF modelOk /\ writeOk
    THEN LET id == Len(store) + 1
         IN  [success |-> TRUE, feedbackId |-> id,
              store |-> Append(store, [id |-> id,
                                       interviewId |-> params.interviewId,
                                       userId |-> params.userId])]
    ELSE [success |-> FALSE, feedbackId |-> 0, store |-> store]

RemoveAt(s, i) == [j \in 1..(Len(s) - 1) |-> IF j < i THEN s[j] ELSE s[j + 1]]

(***************************************************************************)
(* Agent: the render that follows a handler. The handler has set           *)
(* callStatus' and messages'; the FINISHED effect runs on the new values.  *)
(***************************************************************************)
Render ==
    LET e == finishedEffect(callStatus',
                            callStatus' # callStatus \/ messages' # messages)
    IN  /\ pushed' = IF e = "push" THEN "/" ELSE pushed
        /\ inflight' = IF e = "feedback" THEN Append(inflight, messages')
                       ELSE inflight
        /\ invoked' = IF e = "feedback" THEN invoked + 1 ELSE invoked
        /\ finishedNonEmpty' =
              (finishedNonEmpty \/ (/\ type # "generate"
                                    /\ callStatus' = "FINISHED"
                                    /\ messages' # <<>>))

(***************************************************************************)
(* Agent: the handlers.                                                    *)
(***************************************************************************)
\* handleCall, part_000:285-312: setCallStatus(CONNECTING), then vapi.start.
\* A start request issued while the channel has a call is not a second call.
handleCall ==
    /\ UNCHANGED <<authVars, formVars, generalVars, signUpVars>>
    /\ mounted /\ callButtonShown
    /\ clicks < MaxClicks
    /\ clicks' = clicks + 1
    /\ callStatus' = "CONNECTING"
    /\ startsPending' = startsPending + 1
    /\ channel' = IF channel = "idle" THEN "starting" ELSE channel
    /\ startArgs' = startArguments(type, questions)
    /\ UNCHANGED <<questions, errorLogged, type, messages, isSpeaking,
                   mounted, feedback, received>>
    /\ pushed' = pushed /\ inflight' = inflight
    /\ invoked' = 0
    /\ finishedNonEmpty' = finishedNonEmpty

\* handleDisconnect, part_000:315-318: setCallStatus(FINISHED), vapi.stop().
handleDisconnect ==
    /\ UNCHANGED <<authVars, formVars, generalVars, signUpVars>>
    /\ mounted /\ disconnectButtonShown
    /\ callStatus' = handleDisconnectStatus
    /\ channel' = IF channel = "live" THEN "stopping" ELSE channel
    /\ UNCHANGED <<questions, startArgs, errorLogged, type,
                   messages, isSpeaking, mounted, startsPending,
                   feedback, received, clicks>>
    /\ Render

\* onCallStart, part_000:218
onCallStart ==
    /\ UNCHANGED <<authVars, formVars, generalVars, signUpVars>>
    /\ mounted /\ channel = "starting"
    /\ channel' = "live"
    /\ startsPending' = 0
    /\ callStatus' = "ACTIVE"
    /\ UNCHANGED <<questions, startArgs, errorLogged, type,
                   messages, isSpeaking, mounted, feedback, received,
                   clicks>>
    /\ Render

\* onCallEnd, part_000:219
onCallEnd ==
    /\ UNCHANGED <<authVars, formVars, generalVars, signUpVars>>
    /\ mounted /\ channel \in {"live", "stopping"}
    /\ channel' = "idle"
    /\ callStatus' = onCallEndStatus
    /\ UNCHANGED <<questions, startArgs, errorLogged, type,
                   messages, isSpeaking, mounted, startsPending,
                   feedback, received, clicks>>
    /\ Render

\* onMessage, part_000:221-227. Events still arrive while the channel is
\* being torn down.
onMessage ==
    /\ UNCHANGED <<authVars, formVars, generalVars, signUpVars>>
    /\ mounted /\ channel \in {"live", "stopping"}
    /\ Len(received) < MaxEvents
    /\ \E message \in Messages :
          /\ received' = Append(received, message)
          /\ messages' = onMessageState(messages, message)
    /\ UNCHANGED <<questions, startArgs, errorLogged, type,
                   callStatus, isSpeaking, mounted, channel,
                   startsPending, feedback, clicks>>
    /\ Render

\* onSpeechStart, part_000:229
onSpeechStart ==
    /\ UNCHANGED <<authVars, formVars, generalVars, signUpVars>>
    /\ mounted /\ channel = "live"
    /\ isSpeaking' = TRUE
    /\ UNCHANGED <<questions, startArgs, errorLogged, type,
                   callStatus, messages, mounted, channel,
                   startsPending, feedback, received, clicks>>
    /\ Render

\* onSpeechEnd, part_000:230
onSpeechEnd ==
    /\ UNCHANGED <<authVars, formVars, generalVars, signUpVars>>
    /\ mounted /\ channel = "live"
    /\ isSpeaking' = FALSE
    /\ UNCHANGED <<questions, startArgs, errorLogged, type,
                   callStatus, messages, mounted, channel,
                   startsPending, feedback, received, clicks>>
    /\ Render

\* onError ends the call like onCallEnd does.
onErrorFinishes ==
    /\ UNCHANGED <<authVars, formVars, generalVars, signUpVars>>
    /\ mounted /\ channel # "idle"
    /\ errorLogged' = TRUE
    /\ callStatus' = "FINISHED"
    /\ UNCHANGED <<questions, startArgs, type, messages, isSpeaking,
                   mounted, channel, startsPending, feedback, received,
                   clicks>>
    /\ Render

\* onError, part_000:232: console.log only.
onError ==
    /\ UNCHANGED <<authVars, formVars, generalVars, signUpVars>>
    /\ mounted /\ channel # "idle"
    /\ errorLogged' = TRUE
    /\ UNCHANGED <<questions, startArgs, type, callStatus, messages,
                   isSpeaking, mounted, channel,
                   startsPending, feedback, received, clicks>>
    /\ Render

\* handleGenerateFeedback after its await, part_000:258-270: the result of
\* one createFeedback invocation arrives and the router is pushed.
handleGenerateFeedback ==
    /\ UNCHANGED <<authVars, formVars, generalVars, signUpVars>>
    /\ \E i \in 1..Len(inflight) : \E modelOk \in BOOLEAN, writeOk \in BOOLEAN :
          LET r == createFeedback([interviewId |-> interviewId,
                                   userId |-> userId,
                                   transcript |-> inflight[i]],
                                  feedback, modelOk, writeOk)
          IN  /\ feedback' = r.store
              /\ inflight' = RemoveAt(inflight, i)
              /\ pushed' = IF r.success /\ r.feedbackId # 0
                           THEN "/interview/i1/feedback" ELSE "/"
    /\ UNCHANGED <<questions, startArgs, errorLogged, type,
                   callStatus, messages, isSpeaking, mounted, channel,
                   startsPending, received, invoked, clicks,
                   finishedNonEmpty>>

\* The navigation requested by router.push completes: the component
\* unmounts and its listeners are removed (cleanup, part_000:243-250).
unmount ==
    /\ UNCHANGED <<authVars, formVars, generalVars, signUpVars>>
    /\ mounted /\ pushed # "none"
    /\ mounted' = FALSE
    /\ UNCHANGED <<questions, startArgs, errorLogged, type,
                   callStatus, messages, isSpeaking, channel,
                   startsPending, pushed, inflight, feedback, received,
                   invoked, clicks, finishedNonEmpty>>

(***************************************************************************)
(* Server actions of auth.action.ts. A credential is named by its subject; *)
(* "garbage" is a cookie value that is no credential at all.               *)
(***************************************************************************)
Uids == {"u1", "u2"}
Emails == {"e1", "e2"}
CookieValues == {"none", "garbage"} \cup Uids

\* SignUpParams (auth.action.ts:14); the name plays no part.
SignUpParams == [uid : Uids, name : {"n"}, email : Emails]

\* SignInParams (auth.action.ts:57): idToken is a bearer token of a subject,
\* valid or not (expired, malformed).
SignInParams == [email : Emails, idToken : [sub : Uids, valid : BOOLEAN]]

\* db.collection('users').doc(uid).get().exists
docExists(store, uid) == \E d \in store : d.id = uid

\* db.collection('users').doc(uid).get().data(), with the id
docOf(store, uid) == CHOOSE d \in store : d.id = uid

\* db.collection('users').doc(uid).set({name, email}): replaces the document
docSet(store, uid, name, email) ==
    {d \in store : d.id # uid}
        \cup {[id |-> uid, name |-> name, email |-> email]}

\* auth.verifySessionCookie(sessionCookie, true): the subject, or a throw for
\* a credential that is malformed, expired or revoked.
verifySessionCookie(c, live) ==
    IF c \in live THEN [threw |-> FALSE, uid |-> c]
    ELSE [threw |-> TRUE, uid |-> "none"]

Null == [kind |-> "null"]
Thrown == [kind |-> "throw"]
Undefined == [kind |-> "undefined"]
Object(success, message) ==
    [kind |-> "object", success |-> success, message |-> message]

\* getCurrentUser without the test of userRecord.exists.
getCurrentUserNoExistsTest(c, live, store, dbOk) ==
    IF c = "none" THEN Null
    ELSE LET claims == verifySessionCookie(c, live)
         IN  IF claims.threw \/ ~dbOk THEN Null
             ELSE [kind |-> "user", id |-> claims.uid,
                   name |-> IF docExists(store, claims.uid)
                            THEN docOf(store, claims.uid).name ELSE "none",
                   email |-> IF docExists(store, claims.uid)
                             THEN docOf(store, claims.uid).email ELSE "none"]

\* getCurrentUser, auth.action.ts:103-132. dbOk: the read of the profile
\* document did not fail. A throw of verifySessionCookie or of the read is
\* caught (128-131).
getCurrentUser(c, live, store, dbOk) ==
    IF c = "none" THEN Null
    ELSE LET claims == verifySessionCookie(c, live)
         IN  IF claims.threw THEN Null
             ELSE IF ~dbOk THEN Null
             ELSE IF ~docExists(store, claims.uid) THEN Null
             ELSE [kind |-> "user", id |-> claims.uid,
                   name |-> docOf(store, claims.uid).name,
                   email |-> docOf(store, claims.uid).email]

\* signUp, auth.action.ts:13-53. getOk / setOk: the read / the write of the
\* document did not fail. The only existence test is on doc(uid) (18-25);
\* the 'auth/email-already-exists' code (41) is not one a document read or
\* write raises.
signUp(params, store, getOk, setOk) ==
    IF ~getOk
    THEN [result |-> Object(FALSE, "Failed to create an account"),
          store |-> store]
    ELSE IF docExists(store, params.uid)
    THEN [result |-> Object(FALSE, "User already exists. Please sign in instead."),
          store |-> store]
    ELSE IF ~setOk
    THEN [result |-> Object(FALSE, "Failed to create an account"),
          store |-> store]
    ELSE [result |-> Object(TRUE, "Account created successfully. Please sign in."),
          store |-> docSet(store, params.uid, params.name, params.email)]

\* createUserWithEmailAndPassword, part_000:59-63: the provider creates an
\* account under a fresh uid; it refuses an email already in use.
createAccount ==
    /\ UNCHANGED <<agentVars, formVars, generalVars, signUpVars>>
    /\ \E u \in Uids, e \in Emails :
          /\ \A a \in accounts : a.uid # u /\ a.email # e
          /\ accounts' = accounts \cup {[uid |-> u, email |-> e]}
    /\ UNCHANGED <<users, cookie, liveSessions, authResult>>

\* One call of the server action signUp.
callSignUp(params) ==
    /\ UNCHANGED <<agentVars, formVars, generalVars, signUpVars>>
    /\ \E getOk \in BOOLEAN, setOk \in BOOLEAN :
          LET r == signUp(params, users, getOk, setOk)
          IN  /\ users' = r.store
              /\ authResult' = r.result
    /\ UNCHANGED <<accounts, cookie, liveSessions>>

anySignUp == \E params \in SignUpParams : callSignUp(params)

(***************************************************************************)
(* signUp step by step (auth.action.ts:13-53): the awaited existence read  *)
(* (line 18) and the awaited profile write (line 28) are separate steps,   *)
(* and another call may run between them. No transaction joins them.       *)
(***************************************************************************)
Calls == 1..MaxCalls

NoParams == [uid |-> "none", name |-> "none", email |-> "none"]

SignUpInit ==
    /\ calls = [c \in Calls |->
                  [pc |-> "idle", params |-> NoParams,
                   result |-> [kind |-> "none"]]]
    /\ profileWrites = [u \in Uids |-> 0]

\* A client invokes signUp(params), auth.action.ts:13-14.
signUpInvoke(c) ==
    /\ UNCHANGED <<agentVars, authVars, formVars, generalVars>>
    /\ calls[c].pc = "idle"
    /\ \E params \in SignUpParams :
          calls' = [calls EXCEPT ![c].pc = "get", ![c].params = params]
    /\ UNCHANGED profileWrites

\* await doc(uid).get() and the test of exists, auth.action.ts:18-25;
\* a failed read is caught at line 35 and answered at lines 46-49.
signUpGet(c) ==
    /\ UNCHANGED <<agentVars, formVars, generalVars>>
    /\ calls[c].pc = "get"
    /\ \E getOk \in BOOLEAN :
          calls' =
             IF ~getOk
             THEN [calls EXCEPT ![c].pc = "done",
                     ![c].result = Object(FALSE, "Failed to create an account")]
             ELSE IF docExists(users, calls[c].params.uid)
             THEN [calls EXCEPT ![c].pc = "done",
                     ![c].result =
                        Object(FALSE, "User already exists. Please sign in instead.")]
             ELSE [calls EXCEPT ![c].pc = "set"]
    /\ UNCHANGED <<authVars, profileWrites>>

\* await doc(uid).set({name, email}) and the return, auth.action.ts:28-36;
\* a failed write is caught at line 35 and answered at lines 46-49.
signUpSet(c) ==
    /\ UNCHANGED <<agentVars, formVars, generalVars>>
    /\ calls[c].pc = "set"
    /\ \E setOk \in BOOLEAN :
          IF ~setOk
          THEN /\ calls' = [calls EXCEPT ![c].pc = "done",
                              ![c].result =
                                 Object(FALSE, "Failed to create an account")]
               /\ UNCHANGED <<users, profileWrites>>
          ELSE /\ users' = docSet(users, calls[c].params.uid,
                                  calls[c].params.name, calls[c].params.email)
               /\ profileWrites' =
                     [profileWrites EXCEPT ![calls[c].params.uid] = @ + 1]
               /\ calls' = [calls EXCEPT ![c].pc = "done",
                              ![c].result =
                                 Object(TRUE, "Account created successfully. Please sign in.")]
    /\ UNCHANGED <<accounts, cookie, liveSessions, authResult>>

anySignUpInvoke == \E c \in Calls : signUpInvoke(c)
anySignUpGet == \E c \in Calls : signUpGet(c)
anySignUpSet == \E c \in Calls : signUpSet(c)

\* signIn stores the token's credential before the exchange has succeeded.
callSignInCookieFirst(params) ==
    /\ UNCHANGED <<agentVars, generalVars, signUpVars>>
    /\ IF ~(\E a \in accounts : a.email = params.email)
       THEN /\ authResult' = Object(FALSE, "Failed to log into an account.")
            /\ UNCHANGED <<cookie, liveSessions>>
       ELSE IF ~params.idToken.valid
       THEN /\ authResult' = Object(FALSE, "Failed to log into an account.")
            /\ cookie' = params.idToken.sub
            /\ UNCHANGED liveSessions
       ELSE /\ cookie' = params.idToken.sub
            /\ liveSessions' = liveSessions \cup {params.idToken.sub}
            /\ authResult' = Undefined
    /\ UNCHANGED <<accounts, users>>

\* signIn with setSessionCookie, auth.action.ts:56-100. getUserByEmail
\* throws for an unknown email, createSessionCookie for a token that is not
\* valid; both are caught (73-80). The success path ends without a return
\* statement (72-73).
callSignIn(params) ==
    /\ UNCHANGED <<agentVars, generalVars, signUpVars>>
    /\ IF ~(\E a \in accounts : a.email = params.email)
       THEN /\ authResult' = Object(FALSE, "Failed to log into an account.")
            /\ UNCHANGED <<cookie, liveSessions>>
       ELSE IF ~params.idToken.valid
       THEN /\ authResult' = Object(FALSE, "Failed to log into an account.")
            /\ UNCHANGED <<cookie, liveSessions>>
       ELSE /\ cookie' = params.idToken.sub
            /\ liveSessions' = liveSessions \cup {params.idToken.sub}
            /\ authResult' = Undefined
    /\ UNCHANGED <<accounts, users>>

anySignIn ==
    \E params \in SignInParams : callSignIn(params) /\ UNCHANGED formVars

(***************************************************************************)
(* AuthForm, part_000:38-115: the sign-in branch of onSubmit.              *)
(***************************************************************************)
\* onSubmit with type "sign-in", part_000:82-114. signedIn: the provider
\* accepted email and password (signInWithEmailAndPassword did not throw);
\* tokenIssued: getIdToken gave a token; exchangeOk: the server can exchange
\* that token for a session credential. The value signIn returns is not
\* read (101-104).
onSubmitSignIn(email, signedIn, tokenIssued, exchangeOk) ==
    /\ formRoute = "/sign-in"
    /\ IF ~signedIn \/ ~(\E a \in accounts : a.email = email)
       THEN /\ toast' = [kind |-> "error", text |-> "There was an error"]
            /\ UNCHANGED <<formRoute, authVars, agentVars, generalVars, signUpVars>>
       ELSE IF ~tokenIssued
       THEN /\ toast' = [kind |-> "error",
                         text |-> "Sign in Failed. Please try again."]
            /\ UNCHANGED <<formRoute, authVars, agentVars, generalVars, signUpVars>>
       ELSE /\ callSignIn(
                  [email |-> email,
                   idToken |->
                      [sub |-> (CHOOSE a \in accounts : a.email = email).uid,
                       valid |-> exchangeOk]])
            /\ toast' = [kind |-> "success",
                         text |-> "Signed in successfully."]
            /\ formRoute' = "/"

anyOnSubmitSignIn ==
    \E email \in Emails :
        \E signedIn \in BOOLEAN, tokenIssued \in BOOLEAN, exchangeOk \in BOOLEAN :
            onSubmitSignIn(email, signedIn, tokenIssued, exchangeOk)

\* The user opens the sign-in page (again).
visitSignIn ==
    /\ formRoute # "/sign-in"
    /\ formRoute' = "/sign-in"
    /\ toast' = [kind |-> "none"]
    /\ UNCHANGED <<authVars, agentVars, generalVars, signUpVars>>

\* One call of the server action getCurrentUser.
callGetCurrentUser ==
    /\ UNCHANGED <<agentVars, formVars, generalVars, signUpVars>>
    /\ \E dbOk \in BOOLEAN :
          authResult' = getCurrentUser(cookie, liveSessions, users, dbOk)
    /\ UNCHANGED <<accounts, users, cookie, liveSessions>>

\* isAuthenticated, auth.action.ts:135-140: !!user
isAuthenticated(c, live, store, dbOk) ==
    getCurrentUser(c, live, store, dbOk).kind = "user"

\* One call of the server action isAuthenticated.
callIsAuthenticated ==
    /\ UNCHANGED <<agentVars, formVars, generalVars, signUpVars>>
    /\ \E dbOk \in BOOLEAN :
          authResult' =
              [kind |-> "boolean",
               value |-> isAuthenticated(cookie, liveSessions, users, dbOk)]
    /\ UNCHANGED <<accounts, users, cookie, liveSessions>>

\* signOut redirects and leaves the cookie in place.
signOutKeepsCookie ==
    /\ UNCHANGED <<agentVars, formVars, generalVars, signUpVars>>
    /\ authResult' = [kind |-> "redirect", to |-> "/sign-in"]
    /\ UNCHANGED <<accounts, users, cookie, liveSessions>>

\* signOut, auth.action.ts:143-147: deletes the cookie, then redirects.
signOut ==
    /\ UNCHANGED <<agentVars, formVars, generalVars, signUpVars>>
    /\ cookie' = "none"
    /\ authResult' = [kind |-> "redirect", to |-> "/sign-in"]
    /\ UNCHANGED <<accounts, users, liveSessions>>

\* The provider stops verifying a credential (it expired or was revoked).
sessionExpires ==
    /\ UNCHANGED <<agentVars, formVars, generalVars, signUpVars>>
    /\ \E u \in liveSessions : liveSessions' = liveSessions \ {u}
    /\ UNCHANGED <<accounts, users, cookie, authResult>>

\* A request arrives whose 'session' cookie is not a credential
\* (cookieStore.get('session'), auth.action.ts:107).
malformedCookie ==
    /\ UNCHANGED <<agentVars, formVars, generalVars, signUpVars>>
    /\ cookie' = "garbage"
    /\ UNCHANGED <<accounts, users, liveSessions, authResult>>

AuthInit ==
    /\ accounts = {}
    /\ users = {}
    /\ cookie = "none"
    /\ liveSessions = {}
    /\ authResult = [kind |-> "none"]

AuthNext ==
    \/ createAccount
    \/ anySignUp
    \/ anySignIn
    \/ callGetCurrentUser
    \/ callIsAuthenticated
    \/ signOut
    \/ sessionExpires
    \/ malformedCookie

(***************************************************************************)
(* Server actions of general.action (auth.action.ts:148-277), called       *)
(* directly.                                                               *)
(***************************************************************************)
InterviewIds == {"i1", "i2"}

\* Transcripts a caller may pass (CreateFeedbackParams.transcript).
Transcripts == {<<>>, <<[role |-> "user", content |-> "a"]>>}

\* CreateFeedbackParams, auth.action.ts:203
FeedbackParams ==
    [interviewId : InterviewIds, userId : Uids, transcript : Transcripts]

\* One call of the server action createFeedback, auth.action.ts:202-254.
callCreateFeedback(params, modelOk, writeOk) ==
    /\ Len(feedback) < MaxRecords
    /\ LET r == createFeedback(params, feedback, modelOk, writeOk)
       IN  /\ feedback' = r.store
           /\ genResult' = [kind |-> "object", success |-> r.success,
                            feedbackId |-> r.feedbackId]
           /\ succeeded' = succeeded + (IF r.success THEN 1 ELSE 0)
    /\ UNCHANGED <<interviews, authVars, formVars, signUpVars>>
    /\ UNCHANGED <<type, callStatus, messages, isSpeaking, mounted, channel,
                   startsPending, pushed, inflight, received, invoked,
                   clicks, finishedNonEmpty, questions, startArgs,
                   errorLogged>>

anyCreateFeedback ==
    \E params \in FeedbackParams : \E modelOk \in BOOLEAN, writeOk \in BOOLEAN :
        callCreateFeedback(params, modelOk, writeOk)

\* getFeedbackByInterviewId, auth.action.ts:257-277: null when no record
\* matches, else one matching record (limit(1); the store's order decides
\* which, and document ids are not in insertion order).
callGetFeedbackByInterviewId(params) ==
    /\ \/ /\ ~\E i \in 1..Len(feedback) :
                 /\ feedback[i].interviewId = params.interviewId
                 /\ feedback[i].userId = params.userId
          /\ genResult' = [kind |-> "null"]
       \/ \E i \in 1..Len(feedback) :
             /\ feedback[i].interviewId = params.interviewId
             /\ feedback[i].userId = params.userId
             /\ genResult' = [kind |-> "feedback", doc |-> feedback[i]]
    /\ UNCHANGED <<interviews, succeeded, authVars, formVars, agentVars, signUpVars>>

anyGetFeedbackByInterviewId ==
    \E params \in [interviewId : InterviewIds, userId : Uids] :
        callGetFeedbackByInterviewId(params)

\* const { userId, limit = 20 } = params, auth.action.ts:174
DefaultLimit == 20

\* createdAt values; equal values are possible.
Times == {1, 2}

\* The 'interviews' collections: documents 1..n with their fields.
InterviewStores ==
    UNION { [1..n -> [userId : Uids, finalized : BOOLEAN, createdAt : Times]] :
            n \in 0..MaxInterviews }

\* GetLatestInterviewsParams: limit may be left out.
LatestParams ==
    [userId : Uids,
     limit : {[given |-> FALSE, value |-> 0]}
                \cup {[given |-> TRUE, value |-> n] : n \in 1..MaxInterviews}]

\* doc a comes before doc b in orderBy('createdAt', 'desc'); the document
\* name decides between equal createdAt.
orderedBefore(store, a, b) ==
    \/ store[a].createdAt > store[b].createdAt
    \/ store[a].createdAt = store[b].createdAt /\ a < b

\* doc a comes before doc b in ascending order of createdAt.
beforeAscending(store, a, b) ==
    \/ store[a].createdAt < store[b].createdAt
    \/ store[a].createdAt = store[b].createdAt /\ a < b

\* The query of getLatestInterviews with orderBy('createdAt') ascending.
getLatestInterviewsAscending(params, store) ==
    LET lim == IF params.limit.given THEN params.limit.value ELSE DefaultLimit
        hits == {i \in 1..Len(store) :
                    store[i].finalized = TRUE /\ store[i].userId # params.userId}
        rank(i) == Cardinality({j \in hits : beforeAscending(store, j, i)}) + 1
        n == IF Cardinality(hits) < lim THEN Cardinality(hits) ELSE lim
    IN  [k \in 1..n |->
            LET i == CHOOSE i \in hits : rank(i) = k
            IN  [id |-> i, userId |-> store[i].userId,
                 finalized |-> store[i].finalized,
                 createdAt |-> store[i].createdAt]]

\* getLatestInterviews, auth.action.ts:173-189: the documents matching both
\* where clauses, in the order of orderBy, cut at limit, each mapped to
\* {id, ...data}.
getLatestInterviews(params, store) ==
    LET lim == IF params.limit.given THEN params.limit.value ELSE DefaultLimit
        hits == {i \in 1..Len(store) :
                    store[i].finalized = TRUE /\ store[i].userId # params.userId}
        rank(i) == Cardinality({j \in hits : orderedBefore(store, j, i)}) + 1
        n == IF Cardinality(hits) < lim THEN Cardinality(hits) ELSE lim
    IN  [k \in 1..n |->
            LET i == CHOOSE i \in hits : rank(i) = k
            IN  [id |-> i, userId |-> store[i].userId,
                 finalized |-> store[i].finalized,
                 createdAt |-> store[i].createdAt]]

\* One call of the server action getLatestInterviews.
callGetLatestInterviews(params) ==
    /\ genResult' = [kind |-> "interviews",
                     list |-> getLatestInterviews(params, interviews)]
    /\ UNCHANGED <<interviews, succeeded, authVars, formVars, agentVars, signUpVars>>

anyGetLatestInterviews ==
    \E params \in LatestParams : callGetLatestInterviews(params)

AgentInit ==
    /\ type \in Types
    /\ callStatus = "INACTIVE"
    /\ messages = <<>>
    /\ isSpeaking = FALSE
    /\ mounted = TRUE
    /\ channel = "idle"
    /\ startsPending = 0
    /\ pushed = "none"
    /\ inflight = <<>>
    /\ feedback = <<>>
    /\ received = <<>>
    /\ invoked = 0
    /\ clicks = 0
    /\ finishedNonEmpty = FALSE
    /\ questions = [defined |-> TRUE, list |-> << <<"x">>, <<"y">> >>]
    /\ startArgs = [kind |-> "none"]
    /\ errorLogged = FALSE

AgentNext ==
    \/ handleCall
    \/ handleDisconnect
    \/ onCallStart
    \/ onCallEnd
    \/ onMessage
    \/ onSpeechStart
    \/ onSpeechEnd
    \/ onError
    \/ handleGenerateFeedback
    \/ unmount

\* AuthForm before any submission, on the sign-in page.
FormInit ==
    /\ toast = [kind |-> "none"]
    /\ formRoute = "/sign-in"

\* general.action before any call.
GeneralInit ==
    /\ interviews = <<>>
    /\ genResult = [kind |-> "none"]
    /\ succeeded = 0

Init == AgentInit /\ AuthInit /\ FormInit /\ GeneralInit /\ SignUpInit

\* The Agent component on its own.
Next == AgentNext

Spec == Init /\ [][Next]_vars

\* The server actions of auth.action.ts on their own.
NextAuth == AuthNext

SpecAuth == Init /\ [][NextAuth]_vars

\* The initial state with the component's type fixed.
InitFeedback == Init /\ type = "interview"

\* The sign-in form with the identity provider and the session actions.
NextForm ==
    \/ createAccount
    \/ anyOnSubmitSignIn
    \/ visitSignIn
    \/ signOut
    \/ sessionExpires

SpecForm == InitFeedback /\ [][NextForm]_vars

\* getLatestInterviews over every 'interviews' collection of the bounds.
InitInterviews ==
    /\ AgentInit /\ AuthInit /\ FormInit /\ SignUpInit
    /\ type = "interview"
    /\ interviews \in InterviewStores
    /\ genResult = [kind |-> "none"]
    /\ succeeded = 0

NextInterviews == anyGetLatestInterviews

SpecInterviews == InitInterviews /\ [][NextInterviews]_vars

\* The feedback pipeline called directly, for one kind of component.
NextFeedback ==
    \/ anyCreateFeedback
    \/ anyGetFeedbackByInterviewId

SpecFeedback == InitFeedback /\ [][NextFeedback]_vars

\* AgentProps.type is a string, part_000:209: handleCall tests it against
\* 'generate' only, so a third value stands for every other type.
StartTypes == Types \cup {"practice"}

\* The component mounted with every type and every questions prop.
InitStart ==
    /\ type \in StartTypes
    /\ questions \in QuestionProps
    /\ callStatus = "INACTIVE"
    /\ messages = <<>>
    /\ isSpeaking = FALSE
    /\ mounted = TRUE
    /\ channel = "idle"
    /\ startsPending = 0
    /\ pushed = "none"
    /\ inflight = <<>>
    /\ feedback = <<>>
    /\ received = <<>>
    /\ invoked = 0
    /\ clicks = 0
    /\ finishedNonEmpty = FALSE
    /\ startArgs = [kind |-> "none"]
    /\ errorLogged = FALSE
    /\ AuthInit /\ FormInit /\ GeneralInit /\ SignUpInit

\* Starting and ending calls, without the transcript events.
NextStart ==
    \/ handleCall
    \/ handleDisconnect
    \/ onCallStart
    \/ onCallEnd
    \/ onSpeechStart
    \/ onSpeechEnd

SpecStart == InitStart /\ [][NextStart]_vars

\* Concurrent signUp calls, every interleaving of their steps.
NextSignUp ==
    \/ anySignUpInvoke
    \/ anySignUpGet
    \/ anySignUpSet

SpecSignUp == InitFeedback /\ [][NextSignUp]_vars

(***************************************************************************)
(* Claims about the Agent component, checked under Spec.                   *)
(***************************************************************************)

\* C1: for a call whose type is not "generate", once callStatus is FINISHED
\* with a non-empty transcript, createFeedback has been invoked exactly once
\* for that run (since the last start), also when a final transcript event
\* arrives after FINISHED was entered.
C1_FeedbackExactlyOnce ==
    (type # "generate" /\ callStatus = "FINISHED" /\ messages # <<>>)
        => invoked = 1

RECURSIVE finalTranscripts(_)
\* The events with type = transcript and transcriptType = final, in order,
\* each as {role, content}.
finalTranscripts(evs) ==
    IF evs = <<>> THEN <<>>
    ELSE LET m == evs[Len(evs)]
             before == finalTranscripts(SubSeq(evs, 1, Len(evs) - 1))
         IN  IF m.type = "transcript" /\ m.transcriptType = "final"
             THEN before \o <<[role |-> m.role, content |-> m.transcript]>>
             ELSE before

\* C2: the transcript (messages) is exactly the subsequence of the inbound
\* 'message' events that are final transcripts, as {role, content}, in the
\* order received; interim transcripts and other messages add nothing.
C2_TranscriptIsFinalsInOrder == messages = finalTranscripts(received)

\* C2 witness: two events were received, one kept and one discarded.
C2_Witness == Len(received) >= 2 /\ Len(messages) = 1

\* C3: with type "generate", createFeedback is never invoked and no Feedback
\* record is created, whatever the transcript; FINISHED only navigates to
\* the landing view.
C3_GenerateNeverFeedback ==
    type = "generate" =>
        /\ invoked = 0
        /\ inflight = <<>>
        /\ feedback = <<>>
        /\ pushed \in {"none", "/"}
        /\ (callStatus = "FINISHED" => pushed = "/")

\* C3 witness: a generate call finished with a non-empty transcript.
C3_Witness ==
    type = "generate" /\ callStatus = "FINISHED" /\ messages # <<>>
        /\ pushed = "/"

\* C4: a Feedback record exists only if a run of type other than "generate"
\* was FINISHED with a non-empty transcript before; none is created from an
\* empty transcript.
C4_FeedbackOnlyAfterNonEmptyFinish == feedback # <<>> => finishedNonEmpty

\* C5: stop() can be invoked while callStatus is CONNECTING (the component
\* offers handleDisconnect in that state).
C5_StopWhileConnecting ==
    (mounted /\ callStatus = "CONNECTING") => ENABLED handleDisconnect

C7_StartOnlyWhenInactiveOrFinished ==
    [][startsPending' > startsPending
          => callStatus \in {"INACTIVE", "FINISHED"}]_vars

\* C8: once callStatus has left INACTIVE it never becomes INACTIVE again.
C8_NeverBackToInactive ==
    [][callStatus # "INACTIVE" => callStatus' # "INACTIVE"]_vars

\* C8 witness: a second call was started during teardown of the first and
\* ended by the channel.
C8_Witness ==
    callStatus = "FINISHED" /\ channel = "idle" /\ clicks >= 2

(***************************************************************************)
(* Claims about the server actions, checked under SpecAuth.                *)
(***************************************************************************)

\* C9: getCurrentUser never throws; it returns null when the session cookie
\* is absent, when the cookie fails verification, and when the verified
\* subject has no profile document; it returns a User, with id = the
\* subject, only when the cookie verifies and the profile exists.
C9_GetCurrentUserNullOrUser ==
    [][callGetCurrentUser =>
          LET verifies == cookie \in liveSessions
              profile == \E d \in users : d.id = cookie
          IN  /\ authResult'.kind \in {"null", "user"}
              /\ (cookie = "none" \/ ~verifies \/ ~profile)
                    => authResult'.kind = "null"
              /\ authResult'.kind = "user"
                    => (verifies /\ profile /\ authResult'.id = cookie)]_vars

\* C9 witness: getCurrentUser returned null for a cookie that verifies and
\* whose subject has no profile document.
C9_Witness ==
    /\ authResult.kind = "null"
    /\ cookie \in liveSessions
    /\ ~(\E d \in users : d.id = cookie)

\* C10: signUp called with a uid or an email already present in the users
\* collection returns {success: false} and leaves the collection unchanged.
C10_DuplicateSignUpWritesNothing ==
    [][\A params \in SignUpParams :
          (/\ callSignUp(params)
           /\ \E d \in users : d.id = params.uid \/ d.email = params.email)
             => (/\ users' = users
                 /\ authResult'.kind = "object"
                 /\ authResult'.success = FALSE)]_vars

(***************************************************************************)
(* Claims about the feedback pipeline, checked under SpecFeedback.         *)
(***************************************************************************)

\* C11: createFeedback returns {success: true, feedbackId} exactly when the
\* model call and the document-store write both succeed, {success: false}
\* otherwise (an object in every case, never a throw); when the model call
\* or the schema validation fails, no Feedback record is written.
C11_CreateFeedbackResult ==
    [][\A params \in FeedbackParams : \A modelOk \in BOOLEAN, writeOk \in BOOLEAN :
          callCreateFeedback(params, modelOk, writeOk) =>
              /\ genResult'.kind = "object"
              /\ genResult'.success <=> (modelOk /\ writeOk)
              /\ genResult'.success =>
                    \E i \in 1..Len(feedback') :
                        /\ feedback'[i].id = genResult'.feedbackId
                        /\ feedback'[i].interviewId = params.interviewId
                        /\ feedback'[i].userId = params.userId
              /\ ~modelOk => feedback' = feedback]_vars

\* C11 witness: a call failed after an earlier call had written a record.
C11_Witness ==
    genResult.kind = "object" /\ ~genResult.success /\ feedback # <<>>

\* C18: the pipeline enforces no idempotence: the number of Feedback records
\* equals the number of createFeedback invocations that returned success,
\* and the records have pairwise different ids, also when two invocations
\* had the same (interviewId, userId).
C18_NoIdempotence ==
    /\ Len(feedback) = succeeded
    /\ \A i \in 1..Len(feedback) : \A j \in 1..Len(feedback) :
          i # j => feedback[i].id # feedback[j].id

\* C18 witness: two successful invocations for the same pair left two
\* records.
C18_Witness ==
    /\ succeeded = 2
    /\ \E i \in 1..Len(feedback) : \E j \in 1..Len(feedback) :
          /\ i # j
          /\ feedback[i].interviewId = feedback[j].interviewId
          /\ feedback[i].userId = feedback[j].userId

(***************************************************************************)
(* Claims about signUp, signIn and the sign-in form.                       *)
(***************************************************************************)

\* C12: every completed call of signUp and of signIn returns an object
\* {success, message}, on the success path and on every failure path; never
\* undefined. (Checked under SpecAuth.)
C12_SignUpSignInReturnObject ==
    [][(anySignUp \/ anySignIn) => authResult'.kind = "object"]_vars

\* C13: whenever the server-side signIn of a submission returns success =
\* false, the form shows an error notification, not "Signed in
\* successfully", and does not navigate to the home view. (Checked under
\* SpecForm.)
C13_FailedSignInShowsError ==
    [][(/\ anyOnSubmitSignIn
        /\ authResult'.kind = "object"
        /\ ~authResult'.success)
          => (toast'.kind = "error" /\ formRoute' = formRoute)]_vars

(***************************************************************************)
(* Claims about the interview queries, checked under SpecInterviews.       *)
(***************************************************************************)

\* C14: getLatestInterviews({userId, limit}) returns only finalized
\* interviews of other users, each at most once, exactly min(limit, number
\* of eligible interviews) of them (limit 20 when left out), newest first,
\* and no eligible interview left out is newer than one returned.
C14_LatestInterviews ==
    [][\A params \in LatestParams :
          callGetLatestInterviews(params) =>
              LET r == genResult'.list
                  lim == IF params.limit.given THEN params.limit.value ELSE 20
                  elig == {i \in 1..Len(interviews) :
                              /\ interviews[i].finalized
                              /\ interviews[i].userId # params.userId}
                  got == {r[k].id : k \in 1..Len(r)}
              IN  /\ got \subseteq elig
                  /\ \A k \in 1..Len(r) :
                        /\ r[k].finalized /\ r[k].userId # params.userId
                        /\ r[k].createdAt = interviews[r[k].id].createdAt
                  /\ Cardinality(got) = Len(r)
                  /\ Len(r) = IF Cardinality(elig) < lim
                              THEN Cardinality(elig) ELSE lim
                  /\ \A k \in 1..(Len(r) - 1) :
                        r[k].createdAt >= r[k + 1].createdAt
                  /\ \A i \in elig \ got : \A k \in 1..Len(r) :
                        interviews[i].createdAt <= r[k].createdAt]_vars

\* C14 witness: three interviews are eligible for the caller, not all of
\* the same age, and the limit cut the result to the two newest.
C14_Witness ==
    /\ genResult.kind = "interviews"
    /\ Len(genResult.list) = 2
    /\ Len(interviews) = 3
    /\ \A i \in 1..3 :
          /\ interviews[i].finalized
          /\ interviews[i].userId = genResult.list[1].userId
    /\ genResult.list[1].createdAt > genResult.list[2].createdAt

(***************************************************************************)
(* Claims about the session, checked under SpecAuth.                       *)
(***************************************************************************)

\* C15: signOut removes the session cookie and redirects to the sign-in
\* entry point; while the cookie holds no credential getCurrentUser returns
\* null and isAuthenticated false; and the cookie holds a credential again
\* only through a signIn that set a new session cookie.
C15_SignedOutUntilSignIn ==
    [][/\ signOut =>
             /\ cookie' = "none"
             /\ authResult' = [kind |-> "redirect", to |-> "/sign-in"]
       /\ (cookie \notin Uids /\ callGetCurrentUser) => authResult' = Null
       /\ (cookie \notin Uids /\ callIsAuthenticated) =>
             authResult' = [kind |-> "boolean", value |-> FALSE]
       /\ (cookie \notin Uids /\ cookie' \in Uids) =>
             (anySignIn /\ authResult' = Undefined)]_vars

\* C15 witness: after a sign-in and a sign-out, with the credential still
\* verifying at the provider, isAuthenticated returned false.
C15_Witness ==
    /\ cookie = "none"
    /\ liveSessions # {}
    /\ authResult = [kind |-> "boolean", value |-> FALSE]

(***************************************************************************)
(* Further claims about the Agent component, checked under Spec.           *)
(***************************************************************************)

\* C16: the transcript of a call holds only the final transcript events
\* received during that call: when start() is invoked again after FINISHED,
\* the new call begins with none of the earlier call's messages.
C16_NewCallStartsEmpty ==
    [][(handleCall /\ callStatus = "FINISHED") => messages' = <<>>]_vars

\* C17: a channel 'error' event is only logged: it leaves callStatus,
\* messages and isSpeaking unchanged and triggers no feedback call or
\* navigation; callStatus becomes FINISHED only by the channel's call-end
\* event or by stop() (handleDisconnect).
C17_ErrorOnlyLogged ==
    [][/\ onError =>
             UNCHANGED <<callStatus, messages, isSpeaking, inflight,
                         invoked, pushed, feedback>>
       /\ (callStatus # "FINISHED" /\ callStatus' = "FINISHED") =>
             (onCallEnd \/ handleDisconnect)]_vars

\* C17 witness: an error was logged during an active call, which is still
\* active.
C17_Witness ==
    errorLogged /\ callStatus = "ACTIVE" /\ channel = "live"

\* C19: the session cookie is written only after the identity provider has
\* exchanged the bearer token for a session credential: a signIn whose
\* token is invalid or expired returns {success: false} and leaves the
\* cookie as it was, and a signIn that changes the cookie had a valid token
\* and stored that token's credential. (Checked under SpecAuth.)
C19_CookieOnlyAfterExchange ==
    [][\A params \in SignInParams :
          /\ (callSignIn(params) /\ ~params.idToken.valid) =>
                /\ authResult'.kind = "object"
                /\ ~authResult'.success
                /\ cookie' = cookie
          /\ (callSignIn(params) /\ cookie' # cookie) =>
                (params.idToken.valid /\ cookie' = params.idToken.sub)]_vars

\* C19 witness: a signIn failed while an earlier session cookie was stored,
\* and the cookie is still there.
C19_Witness ==
    /\ cookie \in Uids
    /\ authResult = Object(FALSE, "Failed to log into an account.")

\* The position in the rendered string at which the entry of question i
\* begins: every earlier entry takes "- ", its question and one newline.
RECURSIVE entryStart(_, _)
entryStart(list, i) ==
    IF i = 1 THEN 1
    ELSE entryStart(list, i - 1) + 2 + Len(list[i - 1]) + 1

\* str is the list rendered as one "- <question>" entry per question,
\* in list order, joined by newlines; the empty string for no question.
isRendering(str, list) ==
    IF list = <<>> THEN str = <<>>
    ELSE LET n == Len(list)
         IN  /\ Len(str) = entryStart(list, n) + 1 + Len(list[n])
             /\ \A i \in 1..n :
                   LET at == entryStart(list, i)
                   IN  /\ str[at] = "-" /\ str[at + 1] = " "
                       /\ SubSeq(str, at + 2, at + 1 + Len(list[i])) = list[i]
                       /\ i < n => str[at + 2 + Len(list[i])] = "\n"

\* C20: handleCall selects the arguments of vapi.start from the type alone:
\* for type "generate" the workflow identifier with variables {username,
\* userid}; for every other type the interviewer configuration with the
\* variable questions equal to the question list rendered as one
\* "- <question>" entry per question joined by newlines in list order, the
\* empty string when the list is absent or empty. (Checked under SpecStart.)
C20_StartArguments ==
    startArgs.kind = "start" =>
        IF type = "generate"
        THEN /\ startArgs.target = "NEXT_PUBLIC_VAPI_WORKFLOW_ID"
             /\ startArgs.variableValues =
                    [username |-> userName, userid |-> userId]
        ELSE /\ startArgs.target = "interviewer"
             /\ DOMAIN startArgs.variableValues = {"questions"}
             /\ isRendering(startArgs.variableValues.questions,
                            IF questions.defined THEN questions.list ELSE <<>>)

\* C20 witness: a call of a type other than "generate" or "interview" was
\* started with two questions.
C20_Witness ==
    /\ startArgs.kind = "start"
    /\ type = "practice"
    /\ questions.defined /\ Len(questions.list) = 2

\* C21: under every interleaving of concurrent signUp calls for the same
\* uid, the existence read and the profile write of each call being
\* separate steps, at most one call returns success = true and the profile
\* document of that uid is written at most once. (Checked under SpecSignUp.)
C21_ConcurrentSignUpOnce ==
    \A u \in Uids :
        /\ Cardinality({c \in Calls : /\ calls[c].pc = "done"
                                      /\ calls[c].params.uid = u
                                      /\ calls[c].result.success}) <= 1
        /\ profileWrites[u] <= 1

====
